---- MODULE Spec2Model ----
(***************************************************************************)
(* Model of ChatGuard.py: the moderation handlers (ban, unban, mute,       *)
(* unmute) with their permission gate, the duration parser, and the        *)
(* start-up sequence that clears the webhook before polling.               *)
(*                                                                         *)
(* A step of a handler is one `await` of a remote call together with the   *)
(* code around it that touches nothing shared; handlers interleave at      *)
(* their awaits.  The remote service is the state `role`, `banned`,        *)
(* `restricted`; any remote call may fail.                                 *)
(***************************************************************************)
EXTENDS Integers, Sequences, FiniteSets, TLC

(***************************************************************************)
(* Bounds of the model.                                                    *)
(***************************************************************************)
NumHandlers == 2        \* handler invocations the dispatcher overlaps
MaxRetries == 3         \* largest `retries` argument tried for the retrier

(***************************************************************************)
(* Program constants.                                                      *)
(***************************************************************************)
DefaultRetries == 3     \* delete_webhook_with_retry(..., retries: int = 3
DefaultDelay == 5       \* delete_webhook_with_retry(..., delay: int = 5)

Handlers == 1..NumHandlers

\* The participants of the one chat: the bot itself, the moderator who
\* sends the commands and the user whose message is replied to.
BotId == "bot"
Moderator == "mod"
Target == "victim"
Users == {BotId, Moderator, Target}
NoUser == "nobody"      \* message.reply_to_message is None
Chat == "chat"          \* where message.reply and message.answer send

\* ChatMemberStatus values an account of the chat can hold.
ADMINISTRATOR == "administrator"
CREATOR == "creator"
MEMBER == "member"
Statuses == {MEMBER, ADMINISTRATOR, CREATOR}

\* Results of a remote call: it returns, or raises TelegramBadRequest, or
\* raises another exception (network error, forbidden, ...).
OK == "ok"
BadRequest == "TelegramBadRequest"
OtherError == "Exception"
CallResults == {OK, BadRequest, OtherError}
\* The same, for a call whose caller treats every exception alike.
Results == {OK, OtherError}

(***************************************************************************)
(* Text: a string is a sequence of one-character strings.                  *)
(***************************************************************************)
Digits == <<"0", "1", "2", "3", "4", "5", "6", "7", "8", "9">>
DigitChars == {Digits[i] : i \in 1..Len(Digits)}
DigitVal(c) == (CHOOSE i \in 1..Len(Digits) : Digits[i] = c) - 1

\* int(s) for a non-empty run of digits
RECURSIVE int(_)
int(s) ==
    IF s = <<>> THEN 0
    ELSE 10 * int(SubSeq(s, 1, Len(s) - 1)) + DigitVal(s[Len(s)])

\* length of the longest prefix of s made of characters of the set S,
\* and of the longest prefix made of characters outside it
RunIn(s, S) ==
    CHOOSE n \in 0..Len(s) :
        /\ \A i \in 1..n : s[i] \in S
        /\ (n < Len(s) => s[n + 1] \notin S)
RunNotIn(s, S) ==
    CHOOSE n \in 0..Len(s) :
        /\ \A i \in 1..n : s[i] \notin S
        /\ (n < Len(s) => s[n + 1] \in S)

Spaces == {" "}

lstrip(s) == SubSeq(s, RunIn(s, Spaces) + 1, Len(s))

Reverse(s) == [i \in 1..Len(s) |-> s[Len(s) + 1 - i]]

\* str.strip()
strip(s) == Reverse(lstrip(Reverse(lstrip(s))))

\* str.split(maxsplit=1): split on runs of whitespace, at most one split;
\* the remainder keeps its trailing whitespace, no item is empty.
split_maxsplit1(s) ==
    LET a == lstrip(s)
        n == RunNotIn(a, Spaces)
        rest == lstrip(SubSeq(a, n + 1, Len(a)))
    IN  IF a = <<>> THEN <<>>
        ELSE IF rest = <<>> THEN <<SubSeq(a, 1, n)>>
        ELSE <<SubSeq(a, 1, n), rest>>

\* str.split(' ', 1): split at the first space, if there is one
split_space1(s) ==
    LET n == RunNotIn(s, Spaces)
    IN  IF n = Len(s) THEN <<s>>
        ELSE <<SubSeq(s, 1, n), SubSeq(s, n + 2, Len(s))>>

(***************************************************************************)
(* parse_time.  Instants and durations are counted in seconds; the label   *)
(* f"{amount} sec." is the pair <<amount, "sec.">>.                        *)
(***************************************************************************)
NotParseable == [parsed |-> FALSE]      \* return None, None
Parsed(until_date, duration_str) ==
    [parsed |-> TRUE, until_date |-> until_date, duration_str |-> duration_str]

\* timedelta(...) in seconds
seconds(n) == n
minutes(n) == 60 * n
hours(n) == 3600 * n
days(n) == 86400 * n
weeks(n) == 7 * 86400 * n

\* re.match(r'(\d+)([smhd])', time_str): anchored at the start only; the
\* digits are taken greedily and the character after them must be a unit
\* of the class [smhd].  Giving digits back cannot help, since the character
\* after a shorter run is a digit.  The result is the number of digits
\* matched, 0 for no match.
re_match(time_str) ==
    LET n == RunIn(time_str, DigitChars)
    IN  IF n >= 1 /\ n < Len(time_str) /\ time_str[n + 1] \in {"s", "m", "h", "d"}
        THEN n ELSE 0

parse_time(time_str, now) ==
    LET n == re_match(time_str)
        amount == int(SubSeq(time_str, 1, n))
        unit == time_str[n + 1]
    IN  IF n = 0 THEN NotParseable
        ELSE CASE unit = "s" -> Parsed(now + seconds(amount), <<amount, "sec.">>)
               [] unit = "m" -> Parsed(now + minutes(amount), <<amount, "min.">>)
               [] unit = "h" -> Parsed(now + hours(amount), <<amount, "h.">>)
               [] unit = "d" -> Parsed(now + days(amount), <<amount, "d.">>)
               [] unit = "w" -> Parsed(now + weeks(amount), <<amount, "w.">>)
               [] unit = "M" -> Parsed(now + days(30 * amount), <<amount, "M.">>)
               [] unit = "y" -> Parsed(now + days(365 * amount), <<amount, "y.">>)
               [] OTHER -> NotParseable

(***************************************************************************)
(* Commands and their messages.  Only func_mute reads message.text.  A     *)
(* message does not change while it is handled, and check_admin reads      *)
(* neither its text nor its reply-target: the model fixes the two where    *)
(* the handler first reads the message, after the gate.                    *)
(***************************************************************************)
Commands == {"ban", "unban", "mute", "unmute"}

Str_ban == <<"/", "b", "a", "n">>
Str_unban == <<"/", "u", "n", "b", "a", "n">>
Str_unmute == <<"/", "u", "n", "m", "u", "t", "e">>
Str_mute == <<"/", "m", "u", "t", "e">>
MuteRemainders ==
    { <<>>,                                          \* "/mute"
      <<" ", "2", "h">>,                             \* "/mute 2h"
      <<" ", "2", "h", " ", "s", "p", "a", "m">>,    \* "/mute 2h spam"
      <<" ", "z", "z">> }                            \* "/mute zz"

TextsOf(c) ==
    CASE c = "ban" -> {Str_ban}
      [] c = "unban" -> {Str_unban}
      [] c = "unmute" -> {Str_unmute}
      [] c = "mute" -> {Str_mute \o r : r \in MuteRemainders}

(***************************************************************************)
(* State.                                                                  *)
(*   role, banned, restricted : the remote service's membership state      *)
(*   inv[p]                   : the handler invocation running in slot p   *)
(*   main_pc ... printed      : main() and delete_webhook_with_retry       *)
(*   token, utcnow, ret       : a call of parse_time on its own: argument, *)
(*                              the clock it reads and what it returned    *)
(***************************************************************************)
VARIABLES role, banned, restricted, inv,
          main_pc, retries, attempt, calls, sleeps, printed,
          token, utcnow, ret

remote == <<role, banned, restricted>>
boot == <<main_pc, retries, attempt, calls, sleeps, printed>>
parser == <<token, utcnow, ret>>
vars == <<role, banned, restricted, inv,
          main_pc, retries, attempt, calls, sleeps, printed,
          token, utcnow, ret>>

Unread == "unread"       \* message.reply_to_message was not read yet
ReplyTargets == {NoUser, Target}

\* A handler slot with nothing in it, and the fields a new invocation
\* starts with.  bot_status, user_status, target_status are what the role
\* lookups of this invocation returned ("none": not looked up).
NoStatus == "none"
Fresh(c) ==
    [ pc |-> "is_bot_admin", cmd |-> c, reply_to |-> Unread, text |-> <<>>,
      bot_status |-> NoStatus, user_status |-> NoStatus,
      target_status |-> NoStatus,
      gate |-> "pending",      \* check_admin: pending, granted, denied_bot,
                               \*   denied_user, raised
      err |-> "none",          \* the error send_error is about to report
      sends |-> <<>>,          \* messages sent: <<to, kind, result>>
      mutations |-> <<>>,      \* ban / unban / restrict calls issued
      parse_calls |-> 0,       \* calls of parse_time
      outcome |-> "none" ]
Idle == [Fresh("none") EXCEPT !.pc = "idle"]
Message(rec, r, t) == [rec EXCEPT !.reply_to = r, !.text = t]

(***************************************************************************)
(* The permission gate.                                                    *)
(***************************************************************************)
\* Variants with a slip, which the properties below must tell apart from
\* the tests of the code: a test that lets every status pass, and a test
\* that forgets the owner.
is_bot_admin_any(status) == TRUE
is_user_admin_any(status) == TRUE
is_user_admin_no_owner(status) == status = ADMINISTRATOR

\* The tests of is_bot_admin and is_user_admin on the status looked up.
is_bot_admin(status) == status \in {ADMINISTRATOR, CREATOR}
is_user_admin(status) == status \in {ADMINISTRATOR, CREATOR}

\* How an invocation moves on.
Raise(rec) == [rec EXCEPT !.pc = "done", !.outcome = "Raised"]
Finish(rec, out) == [rec EXCEPT !.pc = "done", !.outcome = out]
Report(rec, e) == [rec EXCEPT !.pc = "send_error", !.err = e]
Sent(rec, to, kind, res) == [rec EXCEPT !.sends = Append(@, <<to, kind, res>>)]
Issued(rec, call) == [rec EXCEPT !.mutations = Append(@, call)]

\* The dispatcher hands an update to a handler: every handler starts with
\* `await check_admin(message)`.
Dispatch(p) ==
    /\ main_pc = "polling"
    /\ inv[p].pc \in {"idle", "done"}
    /\ \E c \in Commands : inv' = [inv EXCEPT ![p] = Fresh(c)]
    /\ UNCHANGED <<remote, boot, parser>>

\* check_admin: `if not await is_bot_admin(message.chat.id)`.  A lookup
\* that raises leaves check_admin and the handler, which catch nothing.
check_admin_bot(p) ==
    /\ inv[p].pc = "is_bot_admin"
    /\ \E res \in Results :
         inv' = [inv EXCEPT ![p] =
           IF res # OK THEN Raise([@ EXCEPT !.gate = "raised"])
           ELSE [@ EXCEPT !.bot_status = role[BotId],
                          !.pc = IF is_bot_admin(role[BotId])
                                 THEN "is_user_admin" ELSE "reply_bot"]]
    /\ UNCHANGED <<remote, boot, parser>>

\* check_admin: the reply that the bot is no administrator, `return False`;
\* the handler returns at once.
check_admin_bot_reply(p) ==
    /\ inv[p].pc = "reply_bot"
    /\ \E res \in Results :
         inv' = [inv EXCEPT ![p] =
           LET rec == Sent(@, Chat, "BotNotAdmin", res)
           IN  IF res # OK THEN Raise([rec EXCEPT !.gate = "raised"])
               ELSE Finish([rec EXCEPT !.gate = "denied_bot"], "PermissionDeniedBot")]
    /\ UNCHANGED <<remote, boot, parser>>

\* check_admin: `if not await is_user_admin(chat.id, from_user.id)`, and
\* `return True` when the sender is an administrator.
check_admin_user(p) ==
    /\ inv[p].pc = "is_user_admin"
    /\ \E res \in Results :
         inv' = [inv EXCEPT ![p] =
           IF res # OK THEN Raise([@ EXCEPT !.gate = "raised"])
           ELSE IF is_user_admin(role[Moderator])
                THEN [@ EXCEPT !.user_status = role[Moderator],
                               !.gate = "granted", !.pc = "body"]
                ELSE [@ EXCEPT !.user_status = role[Moderator],
                               !.pc = "reply_user"]]
    /\ UNCHANGED <<remote, boot, parser>>

\* check_admin: the reply that the sender is no administrator.
check_admin_user_reply(p) ==
    /\ inv[p].pc = "reply_user"
    /\ \E res \in Results :
         inv' = [inv EXCEPT ![p] =
           LET rec == Sent(@, Chat, "NotAdmin", res)
           IN  IF res # OK THEN Raise([rec EXCEPT !.gate = "raised"])
               ELSE Finish([rec EXCEPT !.gate = "denied_user"], "PermissionDeniedActor")]
    /\ UNCHANGED <<remote, boot, parser>>

\* send_error: the reply is tried once; when it fails the failure is
\* logged and nothing reaches the chat.  Every caller returns after it.
OutcomeOf(e) == IF e \in {"BanFailed", "Error"} THEN "RemoteFailed" ELSE e
send_error(p) ==
    /\ inv[p].pc = "send_error"
    /\ \E res \in Results :
         inv' = [inv EXCEPT ![p] =
           Finish(Sent(@, Chat, @.err, res), OutcomeOf(@.err))]
    /\ UNCHANGED <<remote, boot, parser>>

(***************************************************************************)
(* The remote mutations, as the handlers call them.  until_date is <<>>    *)
(* for a call that passes none; `changed` tells whether the call changed   *)
(* the remote state.                                                       *)
(***************************************************************************)
\* Variant with a slip: the unban without only_if_banned.
UnbanCall_unconditional(u, res, changed) ==
    [op |-> "unban_chat_member", user_id |-> u, only_if_banned |-> FALSE,
     can_send_messages |-> FALSE, until_date |-> <<>>, result |-> res,
     changed |-> changed]

BanCall(u, res, changed) ==
    [op |-> "ban_chat_member", user_id |-> u, only_if_banned |-> FALSE,
     can_send_messages |-> FALSE, until_date |-> <<>>, result |-> res,
     changed |-> changed]
UnbanCall(u, res, changed) ==
    [op |-> "unban_chat_member", user_id |-> u, only_if_banned |-> TRUE,
     can_send_messages |-> FALSE, until_date |-> <<>>, result |-> res,
     changed |-> changed]
UnmuteCall(u, res, changed) ==
    [op |-> "restrict_chat_member", user_id |-> u, only_if_banned |-> FALSE,
     can_send_messages |-> TRUE, until_date |-> <<>>, result |-> res,
     changed |-> changed]

(***************************************************************************)
(* /ban                                                                    *)
(***************************************************************************)
\* Variant with a slip: the `return` after the refusal of an administrator
\* is missing, so the ban is issued all the same.
func_kick_no_return(p) ==
    /\ inv[p].pc = "body" /\ inv[p].cmd = "ban"
    /\ \E r \in ReplyTargets, t \in TextsOf("ban"), res \in Results :
         /\ inv' = [inv EXCEPT ![p] =
              LET m == Message(@, r, t)
              IN  IF r = NoUser THEN Report(m, "MissingTarget")
                  ELSE IF res # OK THEN Raise(m)
                  ELSE IF is_user_admin(role[r])
                       THEN Report(Issued([m EXCEPT !.target_status = role[r]],
                                          BanCall(r, OK, r \notin banned)),
                                   "TargetIsAdmin")
                       ELSE [m EXCEPT !.target_status = role[r],
                                      !.pc = "ban_chat_member"]]
         /\ banned' = IF r # NoUser /\ res = OK /\ is_user_admin(role[r])
                      THEN banned \cup {r} ELSE banned
    /\ UNCHANGED <<role, restricted, boot, parser>>

\* After the gate: no reply-target is an error; otherwise the target's
\* role is looked up and an administrator is refused.
func_kick(p) ==
    /\ inv[p].pc = "body" /\ inv[p].cmd = "ban"
    /\ \E r \in ReplyTargets, t \in TextsOf("ban"), res \in Results :
         inv' = [inv EXCEPT ![p] =
           LET m == Message(@, r, t)
           IN  IF r = NoUser THEN Report(m, "MissingTarget")
               ELSE IF res # OK THEN Raise(m)
               ELSE IF is_user_admin(role[r])
                    THEN Report([m EXCEPT !.target_status = role[r]], "TargetIsAdmin")
                    ELSE [m EXCEPT !.target_status = role[r],
                                   !.pc = "ban_chat_member"]]
    /\ UNCHANGED <<remote, boot, parser>>

\* Variant with a slip: a ban that fails is tried again.
func_kick_ban_retry(p) ==
    /\ inv[p].pc = "ban_chat_member"
    /\ \E res \in CallResults :
         /\ inv' = [inv EXCEPT ![p] =
              LET rec == Issued(@, BanCall(@.reply_to, res,
                                           res = OK /\ @.reply_to \notin banned))
              IN  IF res = OK THEN [rec EXCEPT !.pc = "ban_answer"] ELSE rec]
         /\ banned' = IF res = OK THEN banned \cup {inv[p].reply_to} ELSE banned
    /\ UNCHANGED <<role, restricted, boot, parser>>

\* try: await bot.ban_chat_member(...); both except clauses report.
func_kick_ban(p) ==
    /\ inv[p].pc = "ban_chat_member"
    /\ \E res \in CallResults :
         /\ inv' = [inv EXCEPT ![p] =
              LET rec == Issued(@, BanCall(@.reply_to, res,
                                           res = OK /\ @.reply_to \notin banned))
              IN  CASE res = OK -> [rec EXCEPT !.pc = "ban_answer"]
                    [] res = BadRequest -> Report(rec, "BanFailed")
                    [] OTHER -> Report(rec, "Error")]
         /\ banned' = IF res = OK THEN banned \cup {inv[p].reply_to} ELSE banned
    /\ UNCHANGED <<role, restricted, boot, parser>>

\* await message.answer(...) inside the same try.
func_kick_answer(p) ==
    /\ inv[p].pc = "ban_answer"
    /\ \E res \in CallResults :
         inv' = [inv EXCEPT ![p] =
           LET rec == Sent(@, Chat, "BanOk", res)
           IN  CASE res = OK -> Finish(rec, "Succeeded")
                 [] res = BadRequest -> Report(rec, "BanFailed")
                 [] OTHER -> Report(rec, "Error")]
    /\ UNCHANGED <<remote, boot, parser>>

(***************************************************************************)
(* /unban                                                                  *)
(***************************************************************************)
\* Variant with a slip: the unban call is not inside the try, and its
\* failure is ignored: the confirmation follows all the same.
func_unban_ignore_failure(p) ==
    /\ inv[p].pc = "body" /\ inv[p].cmd = "unban"
    /\ \E r \in ReplyTargets, t \in TextsOf("unban"), res \in Results :
         /\ inv' = [inv EXCEPT ![p] =
              LET m == Message(@, r, t)
                  rec == Issued(m, UnbanCall(r, res, res = OK /\ r \in banned))
              IN  IF r = NoUser THEN Report(m, "MissingTarget")
                  ELSE [rec EXCEPT !.pc = "unban_answer"]]
         /\ banned' = IF r # NoUser /\ res = OK THEN banned \ {r} ELSE banned
    /\ UNCHANGED <<role, restricted, boot, parser>>

func_unban(p) ==
    /\ inv[p].pc = "body" /\ inv[p].cmd = "unban"
    /\ \E r \in ReplyTargets, t \in TextsOf("unban"), res \in Results :
         /\ inv' = [inv EXCEPT ![p] =
              LET m == Message(@, r, t)
                  rec == Issued(m, UnbanCall(r, res, res = OK /\ r \in banned))
              IN  IF r = NoUser THEN Report(m, "MissingTarget")
                  ELSE IF res = OK THEN [rec EXCEPT !.pc = "unban_answer"]
                  ELSE Report(rec, "Error")]
         \* only_if_banned=True: nothing changes for a user who is not banned
         /\ banned' = IF r # NoUser /\ res = OK THEN banned \ {r} ELSE banned
    /\ UNCHANGED <<role, restricted, boot, parser>>

\* await message.answer("... ban lifted")
func_unban_answer(p) ==
    /\ inv[p].pc = "unban_answer"
    /\ \E res \in Results :
         inv' = [inv EXCEPT ![p] =
           LET rec == Sent(@, Chat, "UnbanOk", res)
           IN  IF res = OK THEN [rec EXCEPT !.pc = "unban_invite"]
               ELSE Report(rec, "Error")]
    /\ UNCHANGED <<remote, boot, parser>>

\* await bot.send_message(reply_message.from_user.id, chat_link), still
\* inside the try: a failure goes to the except clause.
func_unban_invite(p) ==
    /\ inv[p].pc = "unban_invite"
    /\ \E res \in Results :
         inv' = [inv EXCEPT ![p] =
           LET rec == Sent(@, @.reply_to, "Invite", res)
           IN  IF res = OK THEN Finish(rec, "Succeeded") ELSE Report(rec, "Error")]
    /\ UNCHANGED <<remote, boot, parser>>

(***************************************************************************)
(* /mute                                                                   *)
(***************************************************************************)
\* What the handler takes for the duration token: the arguments up to
\* their first space.
time_str_of(text) == split_space1(strip(split_maxsplit1(text)[2]))[1]

\* Variant with a slip: the duration is parsed before the reply-target is
\* looked at.
func_mute_parse_first(p) ==
    /\ inv[p].pc = "body" /\ inv[p].cmd = "mute"
    /\ \E r \in ReplyTargets, t \in TextsOf("mute"), res \in Results :
         inv' = [inv EXCEPT ![p] =
           LET m == Message(@, r, t)
               command_text == split_maxsplit1(t)
               n == [m EXCEPT !.parse_calls = @ + 1]
           IN  IF Len(command_text) < 2 THEN Report(m, "MissingArguments")
               ELSE IF strip(command_text[2]) = <<>> THEN Report(m, "MissingArguments")
               ELSE IF ~parse_time(time_str_of(t), 0).parsed
                    THEN Report(n, "UnparseableDuration")
               ELSE IF r = NoUser THEN Report(n, "MissingTarget")
               ELSE IF res # OK THEN Raise(n)
               ELSE IF is_user_admin(role[r])
                    THEN Report([n EXCEPT !.target_status = role[r]], "TargetIsAdmin")
                    ELSE Raise([n EXCEPT !.target_status = role[r]])]
    /\ UNCHANGED <<remote, boot, parser>>

\* Up to the target's role lookup.  An invocation that gets past it
\* reaches `args = command_text.args.strip()`, where command_text is the
\* list message.text.split(maxsplit=1): a list has no attribute `args`, so
\* the statement raises AttributeError, which nothing catches.  The rest of
\* the handler (parse_time, restrict_chat_member, the confirmation) is
\* never executed.
func_mute(p) ==
    /\ inv[p].pc = "body" /\ inv[p].cmd = "mute"
    /\ \E r \in ReplyTargets, t \in TextsOf("mute"), res \in Results :
         inv' = [inv EXCEPT ![p] =
           LET m == Message(@, r, t)
               command_text == split_maxsplit1(t)
           IN  IF Len(command_text) < 2 THEN Report(m, "MissingArguments")
               ELSE IF strip(command_text[2]) = <<>> THEN Report(m, "MissingArguments")
               ELSE IF r = NoUser THEN Report(m, "MissingTarget")
               ELSE IF res # OK THEN Raise(m)
               ELSE IF is_user_admin(role[r])
                    THEN Report([m EXCEPT !.target_status = role[r]], "TargetIsAdmin")
                    ELSE Raise([m EXCEPT !.target_status = role[r]])]
    /\ UNCHANGED <<remote, boot, parser>>

(***************************************************************************)
(* /unmute                                                                 *)
(***************************************************************************)
\* Nothing here is inside a try.
func_unmute(p) ==
    /\ inv[p].pc = "body" /\ inv[p].cmd = "unmute"
    /\ \E r \in ReplyTargets, t \in TextsOf("unmute"), res \in Results :
         /\ inv' = [inv EXCEPT ![p] =
              LET m == Message(@, r, t)
                  rec == Issued(m, UnmuteCall(r, res, res = OK /\ r \in restricted))
              IN  IF r = NoUser THEN Report(m, "MissingTarget")
                  ELSE IF res = OK THEN [rec EXCEPT !.pc = "unmute_answer"]
                  ELSE Raise(rec)]
         /\ restricted' = IF r # NoUser /\ res = OK THEN restricted \ {r} ELSE restricted
    /\ UNCHANGED <<role, banned, boot, parser>>

func_unmute_answer(p) ==
    /\ inv[p].pc = "unmute_answer"
    /\ \E res \in Results :
         inv' = [inv EXCEPT ![p] =
           LET rec == Sent(@, Chat, "UnmuteOk", res)
           IN  IF res = OK THEN Finish(rec, "Succeeded") ELSE Raise(rec)]
    /\ UNCHANGED <<remote, boot, parser>>

(***************************************************************************)
(* The chat's owner promotes or demotes an account while the bot runs.     *)
(* A chat has one owner, who stays the owner; it is the moderator, the     *)
(* target or somebody else, never the bot's own account.                   *)
(***************************************************************************)
RoleChange ==
    /\ main_pc = "polling"
    /\ \E u \in Users :
         /\ role[u] # CREATOR
         /\ role' = [role EXCEPT ![u] =
                IF @ = MEMBER THEN ADMINISTRATOR ELSE MEMBER]
    /\ UNCHANGED <<banned, restricted, inv, boot, parser>>

(***************************************************************************)
(* Start-up: main() and delete_webhook_with_retry.                         *)
(*   retries : the argument of delete_webhook_with_retry                   *)
(*   attempt : iterations of `for attempt in range(retries)` begun         *)
(*   calls   : results of the delete_webhook calls made in the loop        *)
(*   sleeps  : the delays slept                                            *)
(*   printed : what was printed                                            *)
(***************************************************************************)
NetworkError == "ClientConnectorError"
BootResults == {OK, NetworkError, OtherError}

\* Variant with a slip: no `return` after the success print, so the loop
\* goes on to its sleep and its next iteration.
retry_attempt_no_return ==
    /\ main_pc = "retry" /\ attempt < retries
    /\ \E res \in BootResults :
         /\ calls' = Append(calls, res)
         /\ printed' = Append(printed,
                CASE res = OK -> <<"deleted">>
                  [] res = NetworkError -> <<"network_error", attempt + 1, retries>>
                  [] OTHER -> <<"unexpected_error", attempt + 1, retries>>)
    /\ main_pc' = "sleep"
    /\ attempt' = attempt + 1
    /\ UNCHANGED <<retries, sleeps, remote, inv, parser>>

\* Variant with a slip: the loop runs once more than `retries`.
retry_attempt_one_more ==
    /\ main_pc = "retry" /\ attempt <= retries
    /\ \E res \in BootResults :
         /\ calls' = Append(calls, res)
         /\ printed' = Append(printed,
                CASE res = OK -> <<"deleted">>
                  [] res = NetworkError -> <<"network_error", attempt + 1, retries>>
                  [] OTHER -> <<"unexpected_error", attempt + 1, retries>>)
         /\ main_pc' = IF res = OK THEN "delete_webhook" ELSE "sleep"
    /\ attempt' = attempt + 1
    /\ UNCHANGED <<retries, sleeps, remote, inv, parser>>

\* One iteration of the loop up to its sleep: the call, and either the
\* success print and `return`, or the print of the except clause taken.
retry_attempt ==
    /\ main_pc = "retry" /\ attempt < retries
    /\ \E res \in BootResults :
         /\ calls' = Append(calls, res)
         /\ printed' = Append(printed,
                CASE res = OK -> <<"deleted">>
                  [] res = NetworkError -> <<"network_error", attempt + 1, retries>>
                  [] OTHER -> <<"unexpected_error", attempt + 1, retries>>)
         /\ main_pc' = IF res = OK THEN "delete_webhook" ELSE "sleep"
    /\ attempt' = attempt + 1
    /\ UNCHANGED <<retries, sleeps, remote, inv, parser>>

\* Variant with a slip: no sleep after the last attempt.
retry_sleep_skip_last ==
    /\ main_pc = "sleep"
    /\ sleeps' = IF attempt < retries THEN Append(sleeps, DefaultDelay) ELSE sleeps
    /\ main_pc' = "retry"
    /\ UNCHANGED <<retries, attempt, calls, printed, remote, inv, parser>>

\* await asyncio.sleep(delay), the last statement of the loop body
retry_sleep ==
    /\ main_pc = "sleep"
    /\ sleeps' = Append(sleeps, DefaultDelay)
    /\ main_pc' = "retry"
    /\ UNCHANGED <<retries, attempt, calls, printed, remote, inv, parser>>

\* the loop is exhausted: the terminal print, and the function returns
retry_exhausted ==
    /\ main_pc = "retry" /\ attempt >= retries
    /\ printed' = Append(printed, <<"failed">>)
    /\ main_pc' = "delete_webhook"
    /\ UNCHANGED <<retries, attempt, calls, sleeps, remote, inv, parser>>

\* main: await bot.delete_webhook(drop_pending_updates=True), outside any
\* try: an exception here leaves main and ends asyncio.run.
main_delete_webhook ==
    /\ main_pc = "delete_webhook"
    /\ \E res \in BootResults :
         main_pc' = IF res = OK THEN "start_polling" ELSE "crashed"
    /\ UNCHANGED <<retries, attempt, calls, sleeps, printed, remote, inv, parser>>

\* main: await dp.start_polling(bot)
main_start_polling ==
    /\ main_pc = "start_polling"
    /\ main_pc' = "polling"
    /\ UNCHANGED <<retries, attempt, calls, sleeps, printed, remote, inv, parser>>

(***************************************************************************)
(* A call of parse_time on its own.  ret is <<>> before the call returns   *)
(* and the one-element sequence of the returned value after it.            *)
(***************************************************************************)
MaxTokenLen == 3
TokenChars == {"0", "1", "5", "s", "m", "h", "d", "w", "M", "y", "x", " "}
Tokens == UNION {[1..n -> TokenChars] : n \in 0..MaxTokenLen}
Instants == {0, 1000}    \* readings of datetime.utcnow(), in seconds

ParserIdle ==
    /\ token = <<>>
    /\ utcnow = 0
    /\ ret = <<>>

parse_time_call ==
    /\ ret = <<>>
    /\ ret' = <<parse_time(token, utcnow)>>
    /\ UNCHANGED <<token, utcnow, remote, inv, boot>>

(***************************************************************************)
(* Specifications.                                                         *)
(*   Spec         : the bot polling, its handlers overlapping at their     *)
(*                  awaits, after a start-up whose first attempt succeeded.*)
(*   SpecBoot     : main() from its first statement up to start_polling,   *)
(*                  for every value of `retries` up to MaxRetries.         *)
(*   SpecBootFair : the same, with the event loop running main() on: it    *)
(*                  is the only task before start_polling.                 *)
(*   SpecParse    : parse_time called once on any token of TokenChars up   *)
(*                  to MaxTokenLen characters.                             *)
(***************************************************************************)
RemoteInit ==
    /\ role \in {f \in [Users -> Statuses] :
                  /\ f[BotId] # CREATOR
                  /\ ~(f[Moderator] = CREATOR /\ f[Target] = CREATOR)}
    /\ banned \in SUBSET {Target}
    /\ restricted \in SUBSET {Target}

Init ==
    /\ RemoteInit
    /\ inv = [p \in Handlers |-> Idle]
    /\ main_pc = "polling"
    /\ retries = DefaultRetries
    /\ attempt = 1
    /\ calls = <<OK>>
    /\ sleeps = <<>>
    /\ printed = <<<<"deleted">>>>
    /\ ParserIdle

Handler(p) ==
    \/ Dispatch(p)
    \/ check_admin_bot(p)
    \/ check_admin_bot_reply(p)
    \/ check_admin_user(p)
    \/ check_admin_user_reply(p)
    \/ send_error(p)
    \/ func_kick(p)
    \/ func_kick_ban(p)
    \/ func_kick_answer(p)
    \/ func_unban(p)
    \/ func_unban_answer(p)
    \/ func_unban_invite(p)
    \/ func_mute(p)
    \/ func_unmute(p)
    \/ func_unmute_answer(p)

Next == (\E p \in Handlers : Handler(p)) \/ RoleChange

Spec == Init /\ [][Next]_vars

InitBoot ==
    /\ RemoteInit
    /\ inv = [p \in Handlers |-> Idle]
    /\ main_pc = "retry"
    /\ retries \in 0..MaxRetries
    /\ attempt = 0
    /\ calls = <<>>
    /\ sleeps = <<>>
    /\ printed = <<>>
    /\ ParserIdle

NextBoot ==
    \/ retry_attempt
    \/ retry_sleep
    \/ retry_exhausted
    \/ main_delete_webhook
    \/ main_start_polling

SpecBoot == InitBoot /\ [][NextBoot]_vars

SpecBootFair == InitBoot /\ [][NextBoot]_vars /\ WF_vars(NextBoot)

InitParse ==
    /\ role = [u \in Users |-> MEMBER]
    /\ banned = {}
    /\ restricted = {}
    /\ inv = [p \in Handlers |-> Idle]
    /\ main_pc = "polling"
    /\ retries = DefaultRetries
    /\ attempt = 1
    /\ calls = <<OK>>
    /\ sleeps = <<>>
    /\ printed = <<<<"deleted">>>>
    /\ token \in Tokens
    /\ utcnow \in Instants
    /\ ret = <<>>

NextParse == parse_time_call

SpecParse == InitParse /\ [][NextParse]_vars

(***************************************************************************)
(* Properties.                                                             *)
(***************************************************************************)
Privileged == {ADMINISTRATOR, CREATOR}
Done(p) == inv[p].pc = "done"
PassedGate(p) == inv[p].gate = "granted"
\* a send of this kind to the chat was made and returned
Replied(p, kind) == \E i \in 1..Len(inv[p].sends) : inv[p].sends[i] = <<Chat, kind, OK>>
\* a send of this kind to the chat was made, whatever became of it
Tried(p, kind) ==
    \E i \in 1..Len(inv[p].sends) :
        inv[p].sends[i][1] = Chat /\ inv[p].sends[i][2] = kind

\* C1: a step in which an invocation issues a remote mutation (ban, unban,
\* restrict) starts in a state where that same invocation's own lookups
\* returned administrator or owner for the bot and for the sender and its
\* check_admin granted; the lookups of another invocation do not count.
C1_MutationOnlyAfterOwnGate ==
    [][\A p \in Handlers :
          Len(inv'[p].mutations) > Len(inv[p].mutations) =>
              /\ inv[p].bot_status \in Privileged
              /\ inv[p].user_status \in Privileged
              /\ inv[p].gate = "granted"
              /\ inv'[p].bot_status = inv[p].bot_status
              /\ inv'[p].user_status = inv[p].user_status]_vars

\* One invocation has issued its mutation while the sender has meanwhile
\* lost the administrator role and the other invocation was refused.
C1_Witness ==
    \E p, q \in Handlers :
        /\ p # q
        /\ inv[p].mutations # <<>>
        /\ role[Moderator] = MEMBER
        /\ inv[q].gate = "denied_user"

\* C2: no invocation ends with an exception leaving the handler.
C2_NoExceptionEscapes ==
    \A p \in Handlers : Done(p) => inv[p].outcome # "Raised"

\* C3: a /ban that passed the gate and whose target's role lookup returned
\* administrator or owner issues no mutation and fails with TargetIsAdmin.
C3_BanOfAdminRefused ==
    \A p \in Handlers :
        (inv[p].cmd = "ban" /\ PassedGate(p) /\ inv[p].target_status \in Privileged) =>
            /\ inv[p].mutations = <<>>
            /\ inv[p].pc \in {"send_error", "done"}
            /\ inv[p].err = "TargetIsAdmin"
            /\ (Done(p) => inv[p].outcome = "TargetIsAdmin")

\* A /ban of the chat's owner has ended, refused, with nobody banned.
C3_Witness ==
    \E p \in Handlers :
        /\ inv[p].cmd = "ban" /\ Done(p)
        /\ inv[p].target_status = CREATOR
        /\ inv[p].outcome = "TargetIsAdmin"
        /\ Replied(p, "TargetIsAdmin")
        /\ banned = {}

C5_MuteRestrictsUntilExpiry ==
    \A p \in Handlers :
        ( /\ inv[p].cmd = "mute" /\ PassedGate(p) /\ Done(p)
          /\ inv[p].reply_to = Target
          /\ inv[p].target_status \in Statuses \ Privileged
          /\ Len(split_maxsplit1(inv[p].text)) = 2
          /\ parse_time(time_str_of(inv[p].text), 0).parsed ) =>
            /\ Len(inv[p].mutations) = 1
            /\ inv[p].mutations[1].op = "restrict_chat_member"
            /\ inv[p].mutations[1].user_id = Target
            /\ inv[p].mutations[1].can_send_messages = FALSE
            /\ \E now \in 0..1 :
                   inv[p].mutations[1].until_date =
                       <<parse_time(time_str_of(inv[p].text), now).until_date>>
            /\ Tried(p, "MuteOk")

\* C6: an invocation that ends in a validation error has issued no remote
\* mutation, and the remote ban and restriction state changes only in a
\* step that issues one; a /mute without arguments that passed the gate
\* ends with the one reply MissingArguments and no mutation.
ValidationErrors ==
    {"PermissionDeniedBot", "PermissionDeniedActor", "MissingTarget",
     "MissingArguments", "TargetIsAdmin", "UnparseableDuration"}
C6_ValidationErrorsHaveNoEffect ==
    [][ /\ \A p \in Handlers :
              inv'[p].outcome \in ValidationErrors => inv'[p].mutations = <<>>
        /\ (\A p \in Handlers : Len(inv'[p].mutations) <= Len(inv[p].mutations)) =>
              (banned' = banned /\ restricted' = restricted)
        /\ \A p \in Handlers :
              ( /\ inv'[p].cmd = "mute" /\ inv'[p].gate = "granted"
                /\ inv'[p].pc = "done"
                /\ Len(split_maxsplit1(inv'[p].text)) < 2 ) =>
                  /\ inv'[p].outcome = "MissingArguments"
                  /\ inv'[p].mutations = <<>>
                  /\ Len(inv'[p].sends) = 1
                  /\ inv'[p].sends[1][1] = Chat
                  /\ inv'[p].sends[1][2] = "MissingArguments" ]_vars

\* A bare /mute has ended with the MissingArguments reply, and a /ban of an
\* administrator has ended refused.
C6_Witness ==
    \E p, q \in Handlers :
        /\ inv[p].cmd = "mute" /\ Done(p) /\ inv[p].text = Str_mute
        /\ inv[p].outcome = "MissingArguments"
        /\ Replied(p, "MissingArguments")
        /\ inv[q].cmd = "ban" /\ Done(q) /\ inv[q].outcome = "TargetIsAdmin"

\* C7, as claimed: a /mute that passed the gate and has no reply-target
\* ends in MissingTarget without a call of parse_time, whatever its
\* arguments are, absent ones included.
C7_NoTargetAlwaysMissingTarget ==
    \A p \in Handlers :
        ( /\ inv[p].cmd = "mute" /\ PassedGate(p)
          /\ inv[p].reply_to = NoUser ) =>
            /\ inv[p].err = "MissingTarget"
            /\ inv[p].parse_calls = 0
            /\ (Done(p) => inv[p].outcome = "MissingTarget")

\* C7, amended: a /mute that passed the gate, has arguments after the
\* command and has no reply-target ends in MissingTarget without a call of
\* parse_time, whether the arguments parse or not.
C7_NoTargetWithArguments ==
    \A p \in Handlers :
        ( /\ inv[p].cmd = "mute" /\ PassedGate(p)
          /\ inv[p].reply_to = NoUser
          /\ Len(split_maxsplit1(inv[p].text)) = 2 ) =>
            /\ inv[p].err = "MissingTarget"
            /\ inv[p].parse_calls = 0
            /\ inv[p].mutations = <<>>
            /\ (Done(p) => inv[p].outcome = "MissingTarget")

\* A /mute with a token that does not parse and no reply-target has ended in
\* MissingTarget.
C7_Witness ==
    \E p \in Handlers :
        /\ inv[p].cmd = "mute" /\ Done(p) /\ inv[p].reply_to = NoUser
        /\ Len(split_maxsplit1(inv[p].text)) = 2
        /\ ~parse_time(time_str_of(inv[p].text), 0).parsed
        /\ inv[p].outcome = "MissingTarget"
        /\ Replied(p, "MissingTarget")

\* C8, as claimed: every /unban that passed the gate and has a reply-target
\* ends having called unban with only_if_banned=True, replied success and
\* sent the invite to the target.
C8_UnbanAlwaysSucceeds ==
    \A p \in Handlers :
        ( /\ inv[p].cmd = "unban" /\ PassedGate(p) /\ Done(p)
          /\ inv[p].reply_to = Target ) =>
            /\ Len(inv[p].mutations) = 1
            /\ inv[p].mutations[1].op = "unban_chat_member"
            /\ inv[p].mutations[1].only_if_banned = TRUE
            /\ Replied(p, "UnbanOk")
            /\ \E i \in 1..Len(inv[p].sends) : inv[p].sends[i] = <<Target, "Invite", OK>>

\* C8, amended: every /unban that passed the gate and has a reply-target
\* calls unban once, for the target, with only_if_banned=True, and the call
\* leaves the remote state alone when the target is not banned; when the
\* call returns the success reply is sent next, and when that reply is
\* delivered the invite is sent to the target next; with the three of them
\* returning the invocation succeeds, banned target or not.
C8_UnbanOnlyIfBanned ==
    [][\A p \in Handlers :
          ( /\ inv'[p].cmd = "unban" /\ inv'[p].gate = "granted"
            /\ inv'[p].reply_to = Target ) =>
              /\ Len(inv'[p].mutations) = 1
              /\ inv'[p].mutations[1].op = "unban_chat_member"
              /\ inv'[p].mutations[1].user_id = Target
              /\ inv'[p].mutations[1].only_if_banned = TRUE
              /\ (inv[p].mutations = <<>> /\ Target \notin banned =>
                     banned' = banned /\ ~inv'[p].mutations[1].changed)
              /\ (inv'[p].pc = "done" /\ inv'[p].mutations[1].result = OK =>
                     /\ Len(inv'[p].sends) >= 1
                     /\ inv'[p].sends[1][1] = Chat
                     /\ inv'[p].sends[1][2] = "UnbanOk"
                     /\ (inv'[p].sends[1][3] = OK =>
                            /\ Len(inv'[p].sends) >= 2
                            /\ inv'[p].sends[2][1] = Target
                            /\ inv'[p].sends[2][2] = "Invite"
                            /\ (inv'[p].sends[2][3] = OK =>
                                   /\ inv'[p].outcome = "Succeeded"
                                   /\ Len(inv'[p].sends) = 2))) ]_vars

\* An /unban of a user who was not banned has succeeded: the call changed
\* nothing, the success reply and the invite were delivered.
C8_Witness ==
    \E p \in Handlers :
        /\ inv[p].cmd = "unban" /\ Done(p) /\ inv[p].outcome = "Succeeded"
        /\ Len(inv[p].mutations) = 1
        /\ inv[p].mutations[1].only_if_banned
        /\ ~inv[p].mutations[1].changed
        /\ inv[p].sends = << <<Chat, "UnbanOk", OK>>, <<Target, "Invite", OK>> >>

\* C9: when the unban call returned and the invite send failed, no failure
\* reply is sent to the chat and the invocation ends as Succeeded.
C9_InviteFailureOnlyLogged ==
    \A p \in Handlers :
        ( /\ inv[p].cmd = "unban" /\ Done(p)
          /\ Len(inv[p].mutations) = 1 /\ inv[p].mutations[1].result = OK
          /\ \E i \in 1..Len(inv[p].sends) :
                 /\ inv[p].sends[i][2] = "Invite"
                 /\ inv[p].sends[i][3] # OK ) =>
            /\ inv[p].outcome = "Succeeded"
            /\ ~Tried(p, "Error")

AllFailed == \A i \in 1..Len(calls) : calls[i] # OK
Returned == main_pc \notin {"retry", "sleep"}

C12_StartupNeverAborts ==
    main_pc # "crashed"

C13_NoRetryOfMutation ==
    \A p \in Handlers :
        /\ Len(inv[p].mutations) <= 1
        /\ ( /\ inv[p].cmd = "ban" /\ inv[p].mutations # <<>>
              /\ inv[p].mutations[1].result # OK ) =>
                /\ inv[p].pc \in {"send_error", "done"}
                /\ inv[p].err = IF inv[p].mutations[1].result = BadRequest
                                THEN "BanFailed" ELSE "Error"
                /\ (Done(p) =>
                       /\ inv[p].outcome = "RemoteFailed"
                       /\ Len(inv[p].sends) = 1
                       /\ inv[p].sends[1][1] = Chat
                       /\ inv[p].sends[1][2] = inv[p].err)

\* A /ban whose call was refused with TelegramBadRequest has ended with the
\* failure reply delivered, nobody banned, and an /unmute whose call failed
\* has ended after its one call.
C13_Witness ==
    \E p, q \in Handlers :
        /\ inv[p].cmd = "ban" /\ Done(p)
        /\ Len(inv[p].mutations) = 1
        /\ inv[p].mutations[1].result = BadRequest
        /\ inv[p].sends = << <<Chat, "BanFailed", OK>> >>
        /\ banned = {}
        /\ inv[q].cmd = "unmute" /\ Done(q)
        /\ Len(inv[q].mutations) = 1
        /\ inv[q].mutations[1].result # OK

\* The units and the table the two parse_time claims speak of, and the
\* tokens that are a run of digits followed by one of these units and by
\* nothing else.
ClaimedUnits == {"s", "m", "h", "d", "w", "M", "y"}
ClaimedSeconds(u) ==
    CASE u = "s" -> 1
      [] u = "m" -> 60
      [] u = "h" -> 3600
      [] u = "d" -> 86400
      [] u = "w" -> 7 * 86400
      [] u = "M" -> 30 * 86400
      [] u = "y" -> 365 * 86400
ClaimedLabel(u) ==
    CASE u = "s" -> "sec."
      [] u = "m" -> "min."
      [] u = "h" -> "h."
      [] u = "d" -> "d."
      [] u = "w" -> "w."
      [] u = "M" -> "M."
      [] u = "y" -> "y."
AmountAndUnit(t) ==
    /\ Len(t) >= 2
    /\ \A i \in 1..(Len(t) - 1) : t[i] \in DigitChars
    /\ t[Len(t)] \in ClaimedUnits

\* C14: for a token <n><unit> with unit one of s, m, h, d, w, M, y,
\* parse_time returns the expiry now + n * (seconds of the unit) and the
\* label of the unit with the amount, and never None, None.
C14_AllUnitsParsed ==
    (ret # <<>> /\ AmountAndUnit(token)) =>
        LET amount == int(SubSeq(token, 1, Len(token) - 1))
            unit == token[Len(token)]
        IN  /\ ret[1].parsed
            /\ ret[1].until_date = utcnow + amount * ClaimedSeconds(unit)
            /\ ret[1].duration_str = <<amount, ClaimedLabel(unit)>>

\* C15: parse_time returns a value other than None, None only for a token
\* that is, as a whole, a run of digits followed by one unit character.
C15_OnlyWholeTokens ==
    (ret # <<>> /\ ret[1].parsed) => AmountAndUnit(token)

\* The replies that tell the user of a failure.
FailureReplies ==
    {"BotNotAdmin", "NotAdmin", "MissingTarget", "MissingArguments",
     "TargetIsAdmin", "UnparseableDuration", "BanFailed", "Error"}

\* C16: an invocation that has ended otherwise than in success has sent
\* exactly one message, a failure reply to the chat: not none, and no
\* success confirmation before it.
C16_OneFailureReply ==
    \A p \in Handlers :
        (Done(p) /\ inv[p].outcome # "Succeeded") =>
            /\ Len(inv[p].sends) = 1
            /\ inv[p].sends[1][1] = Chat
            /\ inv[p].sends[1][2] \in FailureReplies

\* A role lookup of check_admin raised: check_admin was left before any
\* reply.
LookupFailed(p) == inv[p].gate = "raised" /\ inv[p].sends = <<>>

\* C17: an invocation whose lookup of the bot's or of the sender's role
\* failed ends denied by check_admin, as for an account that is no
\* administrator, and issues no mutation.
C17_GateFailsClosed ==
    \A p \in Handlers :
        (LookupFailed(p) /\ Done(p)) =>
            /\ inv[p].outcome \in {"PermissionDeniedBot", "PermissionDeniedActor"}
            /\ inv[p].mutations = <<>>

\* C18: in a step in which a /ban issues ban_chat_member for a target, the
\* target's role at the remote service is not administrator or owner,
\* whatever other handlers and role changes were interleaved before it.
C18_NoAdminAtBanInstant ==
    [][\A p \in Handlers :
          ( /\ Len(inv'[p].mutations) > Len(inv[p].mutations)
            /\ inv'[p].mutations[Len(inv'[p].mutations)].op = "ban_chat_member" ) =>
              role[inv'[p].mutations[Len(inv'[p].mutations)].user_id] \notin Privileged]_vars

\* The success confirmation of each command and the mutation it confirms.
ConfirmationOf(c) ==
    CASE c = "ban" -> "BanOk"
      [] c = "unban" -> "UnbanOk"
      [] c = "unmute" -> "UnmuteOk"
      [] OTHER -> "MuteOk"
MutationOf(c) ==
    CASE c = "ban" -> "ban_chat_member"
      [] c = "unban" -> "unban_chat_member"
      [] OTHER -> "restrict_chat_member"

\* C19: whenever an invocation has sent, or tried to send, a success
\* confirmation or an invite, its own mutation call has been made, once, and
\* has returned; the invite is the second message of an /unban, sent to the
\* target after the confirmation was delivered; an /unban whose mutation
\* failed has sent neither.
C19_ConfirmationAfterMutation ==
    \A p \in Handlers :
        /\ \A i \in 1..Len(inv[p].sends) :
               inv[p].sends[i][2] \in {"BanOk", "UnbanOk", "UnmuteOk", "MuteOk", "Invite"} =>
                   /\ Len(inv[p].mutations) = 1
                   /\ inv[p].mutations[1].result = OK
                   /\ inv[p].mutations[1].op = MutationOf(inv[p].cmd)
                   /\ inv[p].sends[i][2] \in {ConfirmationOf(inv[p].cmd), "Invite"}
        /\ \A i \in 1..Len(inv[p].sends) :
               inv[p].sends[i][2] = "Invite" =>
                   /\ inv[p].cmd = "unban"
                   /\ i = 2
                   /\ inv[p].sends[1] = <<Chat, "UnbanOk", OK>>
                   /\ inv[p].sends[i][1] = inv[p].mutations[1].user_id
        /\ ( /\ inv[p].cmd = "unban" /\ inv[p].mutations # <<>>
              /\ inv[p].mutations[1].result # OK ) =>
                /\ ~Tried(p, "UnbanOk")
                /\ \A i \in 1..Len(inv[p].sends) : inv[p].sends[i][2] # "Invite"

\* An /unban whose call failed has ended with the failure reply alone, and
\* a /ban whose call returned has ended with its confirmation delivered.
C19_Witness ==
    \E p, q \in Handlers :
        /\ inv[p].cmd = "unban" /\ Done(p)
        /\ Len(inv[p].mutations) = 1 /\ inv[p].mutations[1].result # OK
        /\ inv[p].sends = << <<Chat, "Error", OK>> >>
        /\ inv[q].cmd = "ban" /\ Done(q)
        /\ Len(inv[q].mutations) = 1 /\ inv[q].mutations[1].result = OK
        /\ inv[q].sends = << <<Chat, "BanOk", OK>> >>

====
